---- MODULE Spec2Model ----
(***************************************************************************)
(* Model of the loop-scheduling simulator: the engine `simulate`           *)
(* (src/simulator/simulator.py) driving the scheduling policies of         *)
(* src/simulator/schedulers.py.  Task identifiers and resource identifiers *)
(* are 0-based as in the source; the load list `tasks` is a TLA+ sequence, *)
(* so the load of task i is tasks[i + 1].                                  *)
(***************************************************************************)
EXTENDS Integers, Sequences, FiniteSets, TLC

VARIABLES tasks, num_resources, cls, chunk_size, scheduler, resources,
          mapping, requests, time, res_id, new_tasks, queries,
          contig_changes, result, pc

vars == <<tasks, num_resources, cls, chunk_size, scheduler, resources,
          mapping, requests, time, res_id, new_tasks, queries,
          contig_changes, result, pc>>

(***************************************************************************)
(* Bounds of the explored inputs.                                          *)
(***************************************************************************)
MaxTasks == 3
MaxLoad == 2
MaxResources == 3
MaxChunk == 2
MaxBatch == 2
MaxTestTasks == 2

(***************************************************************************)
(* Small helpers.                                                          *)
(***************************************************************************)
Min(a, b) == IF a <= b THEN a ELSE b

Max(a, b) == IF a >= b THEN a ELSE b

CeilDiv(a, b) == (a + b - 1) \div b

RECURSIVE SumSeq(_)
SumSeq(s) == IF s = <<>> THEN 0 ELSE s[1] + SumSeq(Tail(s))

RECURSIVE MaxSeq(_)
MaxSeq(s) == IF s = <<>> THEN 0 ELSE Max(s[1], MaxSeq(Tail(s)))

\* Python tuple comparison of two (a, b) pairs: lexicographic.
TupleLess(x, y) == x[1] < y[1] \/ (x[1] = y[1] /\ x[2] < y[2])

(***************************************************************************)
(* The classes the schedulers module defines, and the policy classes a     *)
(* caller can name.  "Nicol" is imported by the unit tests but is not      *)
(* defined by the module; "TestPolicy" stands for a caller-written         *)
(* subclass of Scheduler whose query may return any batch.                 *)
(***************************************************************************)
ModuleClasses == {"OpenMPStatic", "LPT", "OpenMPDynamic", "OpenMPGuided",
                  "RecursiveBipartition", "Scheduler"}

PolicyClasses == ModuleClasses \cup {"Nicol", "TestPolicy"}

\* Scheduler.__init__: the attributes every policy object carries.  The
\* fields schedule and tasks exist on the object only when named in attrs.
SchedulerInit(R, name) ==
    [name |-> name, num_resources |-> R, chunk_size |-> 0,
     schedule |-> [r \in 0..(R - 1) |-> <<>>], tasks |-> <<>>,
     num_tasks |-> 0, attrs |-> {"name", "num_resources"}]

(***************************************************************************)
(* OpenMPStatic.__init__                                                   *)
(***************************************************************************)
\* the group of tasks [task, task + group_size) appended to a resource's list
Group(task, group_size) == [k \in 1..group_size |-> task + k - 1]

\* for resource in range(num_resources): ... (chunk_size == 0)
RECURSIVE CompactLoop(_, _, _, _, _, _)
CompactLoop(resource, task, leftover, partition_size, R, schedule) ==
    IF resource >= R THEN schedule
    ELSE LET group_size == IF leftover > 0 THEN partition_size + 1
                                           ELSE partition_size
             left == IF leftover > 0 THEN leftover - 1 ELSE leftover
         IN CompactLoop(resource + 1, task + group_size, left,
                        partition_size, R,
                        [schedule EXCEPT ![resource] =
                                 @ \o Group(task, group_size)])

\* the round robin that never leaves its resource
NextResourceStuck(resource, R) == resource

\* the round robin that walks the resources backwards
NextResourceBack(resource, R) == (resource + R - 1) % R

\* resource = (resource + 1) % num_resources
NextResource(resource, R) == (resource + 1) % R

\* for task in range(num_tasks): ... (chunk_size != 0)
RECURSIVE RoundRobinLoop(_, _, _, _, _, _, _)
RoundRobinLoop(task, resource, chunk_counter, c, N, R, schedule) ==
    IF task >= N THEN schedule
    ELSE LET sch == [schedule EXCEPT ![resource] = Append(@, task)]
             full == (chunk_counter + 1 = c)
         IN RoundRobinLoop(task + 1,
                           IF full THEN NextResource(resource, R)
                                   ELSE resource,
                           IF full THEN 0 ELSE chunk_counter + 1,
                           c, N, R, sch)

\* a compact mapping that forgets the leftover tasks
StaticScheduleNoLeftover(N, R, c) ==
    LET empty == [r \in 0..(R - 1) |-> <<>>]
    IN IF c = 0
       THEN CompactLoop(0, 0, 0, N \div R, R, empty)
       ELSE RoundRobinLoop(0, 0, 0, c, N, R, empty)

StaticSchedule(N, R, c) ==
    LET empty == [r \in 0..(R - 1) |-> <<>>]
    IN IF c = 0
       THEN CompactLoop(0, 0, N % R, N \div R, R, empty)
       ELSE RoundRobinLoop(0, 0, 0, c, N, R, empty)

OpenMPStaticInit(t, R, c) ==
    [SchedulerInit(R, "Static") EXCEPT
        !.chunk_size = c,
        !.schedule = StaticSchedule(Len(t), R, c),
        !.attrs = @ \cup {"chunk_size", "schedule"}]

(***************************************************************************)
(* LPT.__init__                                                            *)
(***************************************************************************)
\* the pair of largest load, and of smallest index among equal loads
MaxPairLowIndex(S) ==
    CHOOSE x \in S : \A y \in S : y = x \/ y[1] < x[1]
                                      \/ (y[1] = x[1] /\ y[2] > x[2])

\* the largest pair of a non-empty set of (load, index) pairs
MaxPair(S) == CHOOSE x \in S : \A y \in S : y = x \/ TupleLess(y, x)

\* list.sort(reverse=True) on pairwise distinct (load, index) pairs
RECURSIVE SortReverse(_)
SortReverse(S) ==
    IF S = {} THEN <<>>
    ELSE LET m == MaxPair(S) IN <<m>> \o SortReverse(S \ {m})

LPTInit(t, R) ==
    [SchedulerInit(R, "LPT") EXCEPT
        !.tasks = SortReverse({<<t[i + 1], i>> : i \in 0..(Len(t) - 1)}),
        !.attrs = @ \cup {"tasks"}]

(***************************************************************************)
(* OpenMPDynamic.__init__, OpenMPGuided.__init__ (bodies end in TODO),     *)
(* RecursiveBipartition.__init__ (TODO: sets no schedule).                 *)
(***************************************************************************)
OpenMPDynamicInit(t, R, c) ==
    [SchedulerInit(R, "Dynamic") EXCEPT
        !.chunk_size = c, !.attrs = @ \cup {"chunk_size"}]

OpenMPGuidedInit(t, R, c) ==
    [SchedulerInit(R, "Guided") EXCEPT
        !.chunk_size = c, !.attrs = @ \cup {"chunk_size"}]

RecursiveBipartitionInit(t, R) == SchedulerInit(R, "RB")

\* a caller-written policy: remembers how many tasks there are
TestPolicyInit(t, R) ==
    [SchedulerInit(R, "test") EXCEPT !.num_tasks = Len(t)]

NewScheduler(k, t, R, c) ==
    CASE k = "Scheduler" -> SchedulerInit(R, "scheduler")
      [] k = "OpenMPStatic" -> OpenMPStaticInit(t, R, c)
      [] k = "LPT" -> LPTInit(t, R)
      [] k = "OpenMPDynamic" -> OpenMPDynamicInit(t, R, c)
      [] k = "OpenMPGuided" -> OpenMPGuidedInit(t, R, c)
      [] k = "RecursiveBipartition" -> RecursiveBipartitionInit(t, R)
      [] OTHER -> TestPolicyInit(t, R)

(***************************************************************************)
(* query: the set of outcomes of scheduler.query(resource_id).  An outcome *)
(* is the exception flag, the returned value (None or a list of task ids)  *)
(* and the policy object after the call.                                   *)
(***************************************************************************)
Returns(ids, s) == [raised |-> FALSE, none |-> FALSE, ids |-> ids, sched |-> s]

ReturnsNone(s) == [raised |-> FALSE, none |-> TRUE, ids |-> <<>>, sched |-> s]

Raises(s) == [raised |-> TRUE, none |-> FALSE, ids |-> <<>>, sched |-> s]

\* Scheduler.query
SchedulerQuery(s, r) == {Returns(<<>>, s)}

\* OpenMPStatic.query and RecursiveBipartition.query (same body)
ScheduleQuery(s, r) ==
    IF "schedule" \notin s.attrs THEN {Raises(s)}
    ELSE LET t == s.schedule[r]
         IN IF t # <<>>
            THEN {Returns(t, [s EXCEPT !.schedule[r] = <<>>])}
            ELSE {Returns(t, s)}

\* an LPT query that keeps the last task for itself
LPTQueryKeepsLast(s, r) ==
    IF Len(s.tasks) > 1
    THEN {Returns(<<s.tasks[1][2]>>, [s EXCEPT !.tasks = Tail(@)])}
    ELSE {Returns(<<>>, s)}

\* LPT.query
LPTQuery(s, r) ==
    IF s.tasks # <<>>
    THEN {Returns(<<s.tasks[1][2]>>, [s EXCEPT !.tasks = Tail(@)])}
    ELSE {Returns(<<>>, s)}

\* OpenMPDynamic.query, OpenMPGuided.query: the body is a docstring and a
\* TODO comment, so the call returns None.
TodoQuery(s, r) == {ReturnsNone(s)}

\* every list of at most MaxBatch in-range task ids
Batches(N) == UNION {[1..k -> 0..(N - 1)] : k \in 0..MaxBatch}

TestPolicyQuery(s, r) == {Returns(b, s) : b \in Batches(s.num_tasks)}

Query(k, s, r) ==
    CASE k = "Scheduler" -> SchedulerQuery(s, r)
      [] k = "OpenMPStatic" -> ScheduleQuery(s, r)
      [] k = "LPT" -> LPTQuery(s, r)
      [] k = "OpenMPDynamic" -> TodoQuery(s, r)
      [] k = "OpenMPGuided" -> TodoQuery(s, r)
      [] k = "RecursiveBipartition" -> ScheduleQuery(s, r)
      [] OTHER -> TestPolicyQuery(s, r)

\* a test that takes every answer for tasks
TruthyAlways(q) == TRUE

\* a test that takes every answer but None for tasks
TruthyNotNone(q) == ~q.none

\* `if new_tasks:` -- None and the empty list are both false
Truthy(q) == ~q.none /\ q.ids # <<>>

(***************************************************************************)
(* The engine.                                                             *)
(***************************************************************************)
\* a heap that yields its largest entry
HeapMax(h) == CHOOSE x \in h : \A y \in h : y = x \/ TupleLess(y, x)

\* a heap ordered by resource id before time
HeapMinById(h) ==
    CHOOSE x \in h : \A y \in h : y = x \/ TupleLess(<<x[2], x[1]>>,
                                                     <<y[2], y[1]>>)

\* a heap that yields, among the earliest entries, the largest resource id
HeapMinLastId(h) ==
    CHOOSE x \in h : \A y \in h : y = x \/ x[1] < y[1]
                                      \/ (x[1] = y[1] /\ x[2] > y[2])

\* heapq.heappop: the smallest (time, res_id) entry of the heap
HeapMin(h) == CHOOSE x \in h : \A y \in h : y = x \/ TupleLess(x, y)

\* a safety check that takes resource 0 for the unassigned mark
AlreadyScheduledPositive(m, task_id) == m[task_id] > 0

\* a safety check that is never alarmed
AlreadyScheduledNever(m, task_id) == FALSE

\* the safety check `mapping[task_id] != -1`
AlreadyScheduled(m, task_id) == m[task_id] # -1

\* a loop that keeps the load of the last task instead of the sum
RECURSIVE AssignLoopLastLoad(_, _, _, _, _, _)
AssignLoopLastLoad(m, extra_time, ids, k, r, t) ==
    IF k > Len(ids)
    THEN [conflict |-> FALSE, mapping |-> m, extra_time |-> extra_time]
    ELSE IF m[ids[k]] # -1
         THEN [conflict |-> TRUE, mapping |-> m, extra_time |-> extra_time]
         ELSE AssignLoopLastLoad([m EXCEPT ![ids[k]] = r],
                                 t[ids[k] + 1], ids, k + 1, r, t)

\* for task_id in new_tasks: ... ; stops at the first scheduled task
RECURSIVE AssignLoop(_, _, _, _, _, _)
AssignLoop(m, extra_time, ids, k, r, t) ==
    IF k > Len(ids)
    THEN [conflict |-> FALSE, mapping |-> m, extra_time |-> extra_time]
    ELSE IF AlreadyScheduled(m, ids[k])
         THEN [conflict |-> TRUE, mapping |-> m, extra_time |-> extra_time]
         ELSE AssignLoop([m EXCEPT ![ids[k]] = r],
                         extra_time + t[ids[k] + 1], ids, k + 1, r, t)

\* the tuple returned on an assignment conflict
Sentinel == <<<<>>, -1, -1, -1>>

\* number of resource changes between contiguous tasks
ContigChanges(m, N) ==
    Cardinality({i \in 0..(N - 2) : m[i] # m[i + 1]})

\* the mapping as the Python list that is returned
MappingList(m, N) == [k \in 1..N |-> m[k - 1]]

(***************************************************************************)
(* Inputs: every load list of at most MaxTasks loads in 0..MaxLoad, every  *)
(* resource count in 1..MaxResources, every policy class with its chunk    *)
(* sizes, and the scenarios of the unit tests and of complete_example.py.  *)
(***************************************************************************)
DynamicLoads == <<2, 4, 6, 8, 5, 3, 9, 2, 4, 6>>

RBLoads == <<2, 4, 6, 8, 5, 3, 9, 1, 11, 7>>

ExampleLoads == <<1, 2, 3, 4, 5, 6, 7, 8, 9, 10>>

Input(t, R, k, c) == [tasks |-> t, num_resources |-> R, cls |-> k,
                      chunk_size |-> c]

Scenarios ==
    {Input(DynamicLoads, 3, "OpenMPDynamic", 1),
     Input(DynamicLoads, 3, "OpenMPDynamic", 2),
     Input(DynamicLoads, 3, "OpenMPGuided", 1),
     Input(DynamicLoads, 3, "OpenMPGuided", 2),
     Input(RBLoads, 2, "RecursiveBipartition", 0),
     Input(RBLoads, 4, "RecursiveBipartition", 0),
     Input(RBLoads, 3, "Nicol", 0),
     Input(ExampleLoads, 3, "OpenMPStatic", 1),
     Input(ExampleLoads, 3, "OpenMPStatic", 0)}

LoadLists(n) == UNION {[1..m -> 0..MaxLoad] : m \in 0..n}

\* the chunk sizes a policy class is constructed with
ChunkSizes(k) ==
    CASE k = "OpenMPStatic" -> 0..MaxChunk
      [] k \in {"OpenMPDynamic", "OpenMPGuided"} -> 1..MaxChunk
      [] OTHER -> {0}

\* the caller-written policy is explored on the shorter load lists
MaxTasksOf(k) == IF k = "TestPolicy" THEN MaxTestTasks ELSE MaxTasks

BoundedInputs(k) ==
    {Input(t, R, k, c) :
        t \in LoadLists(MaxTasksOf(k)), R \in 1..MaxResources,
        c \in ChunkSizes(k)}

Inputs(k) == BoundedInputs(k) \cup {inp \in Scenarios : inp.cls = k}

NumTasks == Len(tasks)

Init ==
    /\ \E k \in PolicyClasses : \E inp \in Inputs(k) :
          /\ tasks = inp.tasks
          /\ num_resources = inp.num_resources
          /\ cls = inp.cls
          /\ chunk_size = inp.chunk_size
    /\ scheduler = SchedulerInit(0, "")
    /\ resources = {}
    /\ mapping = <<>>
    /\ requests = 0
    /\ time = -1
    /\ res_id = -1
    /\ new_tasks = [raised |-> FALSE, none |-> FALSE, ids |-> <<>>]
    /\ queries = 0
    /\ contig_changes = 0
    /\ result = <<>>
    /\ pc = "start"

\* The caller imports the policy class from the schedulers module and
\* constructs the policy; a name the module does not define raises
\* ImportError.
Construct ==
    /\ pc = "start"
    /\ IF cls \in ModuleClasses \cup {"TestPolicy"}
       THEN /\ scheduler' = NewScheduler(cls, tasks, num_resources, chunk_size)
            /\ pc' = "setup"
       ELSE /\ scheduler' = scheduler
            /\ pc' = "raised"
    /\ UNCHANGED <<tasks, num_resources, cls, chunk_size, resources, mapping,
                   requests, time, res_id, new_tasks, queries,
                   contig_changes, result>>

\* simulate, setup: the heap of free resources, the mapping, the counter
Setup ==
    /\ pc = "setup"
    /\ resources' = {<<0, i>> : i \in 0..(num_resources - 1)}
    /\ mapping' = [i \in 0..(NumTasks - 1) |-> -1]
    /\ requests' = 0
    /\ pc' = "loop"
    /\ UNCHANGED <<tasks, num_resources, cls, chunk_size, scheduler, time,
                   res_id, new_tasks, queries, contig_changes, result>>

\* simulate, one iteration of `while resources:`
Iterate ==
    /\ pc = "loop"
    /\ resources # {}
    /\ LET top == HeapMin(resources)
           rest == resources \ {top}
       IN /\ time' = top[1]
          /\ res_id' = top[2]
          /\ \E q \in Query(cls, scheduler, top[2]) :
                /\ new_tasks' = [raised |-> q.raised, none |-> q.none,
                                 ids |-> q.ids]
                /\ scheduler' = q.sched
                /\ queries' = queries + 1
                /\ IF q.raised
                   THEN /\ pc' = "raised"
                        /\ resources' = rest
                        /\ UNCHANGED <<mapping, requests, result>>
                   ELSE IF Truthy(q)
                   THEN LET a == AssignLoop(mapping, 0, q.ids, 1, top[2], tasks)
                        IN /\ requests' = requests + 1
                           /\ mapping' = a.mapping
                           /\ IF a.conflict
                              THEN /\ result' = Sentinel
                                   /\ resources' = rest
                                   /\ pc' = "done"
                              ELSE /\ resources' = rest \cup
                                        {<<top[1] + a.extra_time, top[2]>>}
                                   /\ UNCHANGED <<result, pc>>
                   ELSE /\ resources' = rest
                        /\ UNCHANGED <<mapping, requests, result, pc>>
    /\ UNCHANGED <<tasks, num_resources, cls, chunk_size, contig_changes>>

\* simulate, after the loop: contiguity changes and the returned tuple
Finish ==
    /\ pc = "loop"
    /\ resources = {}
    /\ contig_changes' = ContigChanges(mapping, NumTasks)
    /\ result' = <<MappingList(mapping, NumTasks), time, requests,
                   ContigChanges(mapping, NumTasks)>>
    /\ pc' = "done"
    /\ UNCHANGED <<tasks, num_resources, cls, chunk_size, scheduler,
                   resources, mapping, requests, time, res_id, new_tasks,
                   queries>>

Next == Construct \/ Setup \/ Iterate \/ Finish

Spec == Init /\ [][Next]_vars

\* simulate is a sequential program: it keeps running until it returns or
\* raises
FairSpec == Spec /\ WF_vars(Next)

TypeOK ==
    /\ pc \in {"start", "setup", "loop", "done", "raised"}
    /\ requests \in 0..(NumTasks + 1)
    /\ queries \in 0..(NumTasks + num_resources)

(***************************************************************************)
(* Properties.                                                             *)
(***************************************************************************)
Done == pc = "done"

\* simulate returned its 4-tuple after the loop drained the heap
Succeeded == pc = "done" /\ result # Sentinel

\* sum of the loads of the tasks a returned mapping gives to resource r
RECURSIVE LoadOfFrom(_, _, _)
LoadOfFrom(m, r, k) ==
    IF k > Len(m) THEN 0
    ELSE (IF m[k] = r THEN tasks[k] ELSE 0) + LoadOfFrom(m, r, k + 1)

LoadOf(m, r) == LoadOfFrom(m, r, 1)

\* largest finish time over the resources
MaxFinish(m) ==
    CHOOSE x \in {LoadOf(m, r) : r \in 0..(num_resources - 1)} :
        \A r \in 0..(num_resources - 1) : LoadOf(m, r) <= x

\* a batch names a task that is scheduled already or names a task twice
HasConflict(m, ids) ==
    \E k \in 1..Len(ids) :
        \/ m[ids[k]] # -1
        \/ \E j \in 1..(k - 1) : ids[j] = ids[k]

\* C1: for every policy class of the module and every input with at least
\* one task, when simulate returns without an assignment conflict the
\* returned mapping gives every task a resource id in [0, R): no -1 is left.
C1_MappingTotal ==
    (Succeeded /\ cls \in ModuleClasses /\ NumTasks >= 1) =>
        /\ Len(result[1]) = NumTasks
        /\ \A k \in 1..NumTasks : result[1][k] \in 0..(num_resources - 1)

\* C2: a query whose non-empty batch holds a task that is already mapped
\* when the engine reaches it (by an earlier query or earlier in the same
\* batch) ends simulate with the sentinel ([], -1, -1, -1); nothing is
\* queried after the sentinel.
C2_ConflictReturnsSentinel ==
    [][/\ (pc = "loop" /\ queries' = queries + 1 /\ ~new_tasks'.raised
             /\ HasConflict(mapping, new_tasks'.ids))
          => (pc' = "done" /\ result' = Sentinel)
       /\ (result = Sentinel => queries' = queries)]_vars

\* a conflict with a task that an earlier query gave to another resource
C2_Witness ==
    /\ pc = "done" /\ result = Sentinel /\ requests >= 2
    /\ \E k \in 1..Len(new_tasks.ids) :
          mapping[new_tasks.ids[k]] \notin {-1, res_id}

\* C3: when simulate returns without conflict, the makespan (time of the
\* last entry popped) is the largest, over the resources, of the sum of the
\* loads of the tasks mapped to the resource.
C3_MakespanIsMaxFinish ==
    Succeeded => result[2] = MaxFinish(result[1])

\* the busiest resource is not the one with the largest identifier, and
\* another resource worked too
C3_Witness ==
    /\ Succeeded
    /\ \E r1, r2 \in 0..(num_resources - 1) :
          /\ r1 < r2
          /\ LoadOf(result[1], r1) > LoadOf(result[1], r2)
          /\ LoadOf(result[1], r2) > 0

\* C4: for every policy class of the module and every input with at least
\* one task, the makespan of a run without conflict lies between the
\* largest load and the sum of the loads.
C4_MakespanBounds ==
    (Succeeded /\ cls \in ModuleClasses /\ NumTasks >= 1) =>
        /\ MaxSeq(tasks) <= result[2]
        /\ result[2] <= SumSeq(tasks)

\* C5 as stated: for OpenMPStatic in both modes and every N >= 1, R >= 1,
\* the successful-request count returned by simulate equals R.
C5_StaticRequestsEqualResources ==
    (Done /\ cls = "OpenMPStatic" /\ NumTasks >= 1) =>
        /\ result # Sentinel
        /\ result[3] = num_resources

\* C5 amended: for OpenMPStatic the successful-request count is the number
\* of resources whose list is not empty: min(N, R) with chunk_size = 0 and
\* min(ceil(N / c), R) with chunk_size = c > 0.
C5_StaticRequests ==
    (Done /\ cls = "OpenMPStatic" /\ NumTasks >= 1) =>
        /\ result # Sentinel
        /\ result[3] = IF chunk_size = 0
                       THEN Min(NumTasks, num_resources)
                       ELSE Min(CeilDiv(NumTasks, chunk_size), num_resources)

\* a chunked run with fewer chunks than resources
C5_Witness ==
    /\ Done /\ cls = "OpenMPStatic" /\ chunk_size = 2
    /\ NumTasks = 3 /\ num_resources = 3 /\ result[3] = 2

\* C6: for LPT and every N >= 1, R >= 1, the successful-request count is N:
\* a non-empty answer holds exactly one task, and no resource is retired
\* while LPT still holds a task.
C6_LPTRequests ==
    cls = "LPT" =>
        /\ Len(new_tasks.ids) <= 1
        /\ (pc = "loop" /\ Cardinality(resources) < num_resources)
              => scheduler.tasks = <<>>
        /\ (Done /\ NumTasks >= 1) =>
              (result # Sentinel /\ result[3] = NumTasks)

\* more tasks than resources, all handed out one by one
C6_Witness ==
    /\ Done /\ cls = "LPT" /\ NumTasks = 3 /\ num_resources = 2
    /\ result[3] = 3

\* the run of the caller is over: simulate returned or an exception left it
Ended == pc \in {"done", "raised"}

\* every task of a returned mapping has a resource id in [0, R)
Total(m) ==
    /\ Len(m) = NumTasks
    /\ \A k \in 1..NumTasks : m[k] \in 0..(num_resources - 1)

\* C7: OpenMPDynamic(tasks, R, c) hands out the next min(c, remaining)
\* consecutive tasks per query from one shared pointer, so simulate maps
\* every task with ceil(N / c) successful queries; on the loads
\* [2,4,6,8,5,3,9,2,4,6] with R = 3 it returns mapping [0,1,2,0,1,2,1,2,0,2],
\* makespan 18, 10 queries, 9 changes for c = 1 and mapping
\* [0,0,1,1,2,2,0,0,2,2], makespan 18, 5 queries, 4 changes for c = 2.
C7_DynamicResults ==
    (Ended /\ cls = "OpenMPDynamic" /\ NumTasks >= 1) =>
        /\ Succeeded
        /\ Total(result[1])
        /\ result[3] = CeilDiv(NumTasks, chunk_size)
        /\ (tasks = DynamicLoads /\ num_resources = 3 /\ chunk_size = 1)
              => result = <<<<0, 1, 2, 0, 1, 2, 1, 2, 0, 2>>, 18, 10, 9>>
        /\ (tasks = DynamicLoads /\ num_resources = 3 /\ chunk_size = 2)
              => result = <<<<0, 0, 1, 1, 2, 2, 0, 0, 2, 2>>, 18, 5, 4>>

\* C8: OpenMPGuided(tasks, R, c) hands out min(max(c, remaining div R),
\* remaining) consecutive tasks per query until none remain, so simulate
\* maps every task; on the loads [2,4,6,8,5,3,9,2,4,6] with R = 3 it returns
\* mapping [0,0,0,1,1,2,2,0,2,1], makespan 19, 7 queries, 5 changes for
\* c = 1 and mapping [0,0,0,1,1,2,2,0,0,2], makespan 18, 5 queries,
\* 4 changes for c = 2.
C8_GuidedResults ==
    (Ended /\ cls = "OpenMPGuided" /\ NumTasks >= 1) =>
        /\ Succeeded
        /\ Total(result[1])
        /\ (tasks = DynamicLoads /\ num_resources = 3 /\ chunk_size = 1)
              => result = <<<<0, 0, 0, 1, 1, 2, 2, 0, 2, 1>>, 19, 7, 5>>
        /\ (tasks = DynamicLoads /\ num_resources = 3 /\ chunk_size = 2)
              => result = <<<<0, 0, 0, 1, 1, 2, 2, 0, 0, 2>>, 18, 5, 4>>

\* C9: RecursiveBipartition(tasks, R) precomputes one contiguous range per
\* resource, the ranges in resource-id order partitioning 0..N-1, and hands
\* each resource its range on its first query; on the loads
\* [2,4,6,8,5,3,9,1,11,7] it returns mapping [0,0,0,0,0,0,1,1,1,1],
\* makespan 28, 2 queries, 1 change for R = 2 and mapping
\* [0,0,0,1,1,1,2,2,3,3], makespan 18, 4 queries, 3 changes for R = 4.
C9_RecursiveBipartitionResults ==
    (Ended /\ cls = "RecursiveBipartition" /\ NumTasks >= 1) =>
        /\ Succeeded
        /\ Total(result[1])
        /\ \A k \in 1..(NumTasks - 1) : result[1][k] <= result[1][k + 1]
        /\ (tasks = RBLoads /\ num_resources = 2)
              => result = <<<<0, 0, 0, 0, 0, 0, 1, 1, 1, 1>>, 28, 2, 1>>
        /\ (tasks = RBLoads /\ num_resources = 4)
              => result = <<<<0, 0, 0, 1, 1, 1, 2, 2, 3, 3>>, 18, 4, 3>>

\* C10: the schedulers module provides Nicol(tasks, R), which gives the
\* resources 0..R-2 in turn the prefix of the remaining tasks whose load is
\* closest to remaining_total / remaining_resources and the rest to R-1; on
\* the loads [2,4,6,8,5,3,9,1,11,7] with R = 3 simulate returns mapping
\* [0,0,0,0,1,1,1,1,2,2], makespan 20, 3 queries, 2 changes.
C10_NicolResults ==
    (Ended /\ cls = "Nicol" /\ NumTasks >= 1) =>
        /\ Succeeded
        /\ Total(result[1])
        /\ \A k \in 1..(NumTasks - 1) : result[1][k] <= result[1][k + 1]
        /\ (tasks = RBLoads /\ num_resources = 3)
              => result = <<<<0, 0, 0, 0, 1, 1, 1, 1, 2, 2>>, 20, 3, 2>>

\* a step of the loop that pops a resource and queries the policy for it
QueryStep == pc = "loop" /\ queries' = queries + 1

\* the resource identifiers that have an entry in the heap
HeapIds(h) == {x[2] : x \in h}

\* C12: at every iteration the queried resource is the one whose
\* (finish_time, resource_id) entry is the lexicographically smallest of the
\* heap: earliest finish time first, smallest resource id among equal times.
C12_QueriesSmallestEntry ==
    [][QueryStep =>
          /\ <<time', res_id'>> \in resources
          /\ \A y \in resources :
                \/ time' < y[1]
                \/ (time' = y[1] /\ res_id' <= y[2])]_vars

\* the last query went to a resource while a smaller identifier waited with
\* a later finish time and a larger identifier waited with the same time
C12_Witness ==
    /\ pc = "loop" /\ queries > num_resources
    /\ \E x \in resources : x[2] < res_id /\ x[1] > time
    /\ \E y \in resources : y[2] > res_id /\ y[1] = time

\* C13: a mapping entry only ever changes from -1 to a resource id and is
\* never changed again, whatever the policy returns; a task is thus mapped
\* to at most one resource.
C13_MappingWriteOnce ==
    [][\A i \in DOMAIN mapping :
          /\ mapping[i] # -1 => mapping'[i] = mapping[i]
          /\ mapping'[i] # mapping[i] => mapping'[i] = res_id']_vars

\* a policy named a task again that another resource holds, and the task
\* stayed where it was
C13_Witness ==
    /\ cls = "TestPolicy" /\ Done /\ queries >= 2
    /\ Len(new_tasks.ids) = 2
    /\ mapping[new_tasks.ids[1]] = res_id
    /\ mapping[new_tasks.ids[2]] \notin {-1, res_id}

\* sum of the loads of the tasks the engine's mapping gives to resource r
Busy(r) == LoadOf(MappingList(mapping, NumTasks), r)

\* C14: at every iteration boundary of a run without conflict, the finish
\* time in the heap entry of a resource, and the time at which a resource is
\* retired, is the sum of the loads of the tasks mapped to it (0 at first).
C14_FinishTimeIsLoadSum ==
    pc = "loop" =>
        /\ \A x \in resources : x[1] = Busy(x[2])
        /\ (queries > 0 /\ res_id \notin HeapIds(resources))
              => time = Busy(res_id)

\* a resource that took two batches is retired at the sum of their loads
C14_Witness ==
    /\ pc = "loop" /\ cls = "TestPolicy" /\ requests = 2
    /\ res_id \notin HeapIds(resources)
    /\ \A i \in DOMAIN mapping : mapping[i] = res_id
    /\ NumTasks = 2 /\ tasks[1] > 0 /\ tasks[2] > 0
    /\ time = tasks[1] + tasks[2]

\* C15: at every iteration boundary the heap holds exactly one entry for
\* each resource that has not received an empty answer and none for a
\* retired one: it starts with one entry per resource, a query goes to a
\* resource of the heap, an empty answer removes that resource's entry, a
\* non-empty answer without conflict keeps the same resources, and no
\* resource ever comes back.
C15_HeapHoldsActiveResources ==
    [][/\ pc' = "loop" =>
             /\ Cardinality(resources') = Cardinality(HeapIds(resources'))
             /\ HeapIds(resources') \subseteq 0..(num_resources - 1)
       /\ pc = "setup" => HeapIds(resources') = 0..(num_resources - 1)
       /\ pc = "loop" => HeapIds(resources') \subseteq HeapIds(resources)
       /\ QueryStep =>
             /\ res_id' \in HeapIds(resources)
             /\ (new_tasks'.none \/ new_tasks'.ids = <<>>)
                   => HeapIds(resources') = HeapIds(resources) \ {res_id'}
             /\ (pc' = "loop" /\ ~new_tasks'.none /\ new_tasks'.ids # <<>>)
                   => HeapIds(resources') = HeapIds(resources)]_vars

\* a resource was retired while another one stays in the heap with work done
C15_Witness ==
    /\ pc = "loop" /\ queries > 0
    /\ res_id \notin HeapIds(resources)
    /\ \E x \in resources : x[1] > 0
    /\ \E i \in DOMAIN mapping : mapping[i] = res_id

\* the elements of a finite set of integers in ascending order
RECURSIVE Ascending(_)
Ascending(S) ==
    IF S = {} THEN <<>>
    ELSE LET m == CHOOSE x \in S : \A y \in S : x <= y
         IN <<m>> \o Ascending(S \ {m})

\* the lists of the resources 0..r, one after the other
RECURSIVE Concat(_, _)
Concat(schedule, r) ==
    IF r < 0 THEN <<>> ELSE Concat(schedule, r - 1) \o schedule[r]

\* no task of a list has been mapped yet
Unserved(ids) == \A k \in 1..Len(ids) : mapping[ids[k]] = -1

\* the contiguous run of resource r: base + 1 tasks when r < extra, else base
CompactRun(r) ==
    LET base == NumTasks \div num_resources
        extra == NumTasks % num_resources
        size == IF r < extra THEN base + 1 ELSE base
        start == r * base + Min(r, extra)
    IN [k \in 1..size |-> start + k - 1]

\* C16: OpenMPStatic with chunk_size = 0 precomputes, for every N >= 0 and
\* R >= 1, R contiguous runs that in resource-id order concatenate to
\* 0..N-1, of base + 1 tasks for the resources with id < extra and of base
\* tasks for the others (base = N div R, extra = N mod R); the first query
\* for a resource returns its whole run and every later query for it
\* returns empty.
C16_CompactRuns ==
    [][(cls = "OpenMPStatic" /\ chunk_size = 0) =>
          /\ pc' = "setup" =>
                /\ \A r \in 0..(num_resources - 1) :
                      scheduler'.schedule[r] = CompactRun(r)
                /\ Concat(scheduler'.schedule, num_resources - 1)
                      = [k \in 1..NumTasks |-> k - 1]
          /\ QueryStep =>
                new_tasks' = [raised |-> FALSE, none |-> FALSE,
                              ids |-> IF Unserved(CompactRun(res_id'))
                                      THEN CompactRun(res_id')
                                      ELSE <<>>]]_vars

\* three tasks on two resources: runs of 2 and 1 tasks, each resource
\* asked twice
C16_Witness ==
    /\ Done /\ cls = "OpenMPStatic" /\ chunk_size = 0
    /\ num_resources = 2 /\ queries = 4
    /\ result[1] = <<0, 0, 1>>

\* the tasks i with (i div c) mod R = r, in ascending order
RoundRobinList(r) ==
    Ascending({i \in 0..(NumTasks - 1) :
                  (i \div chunk_size) % num_resources = r})

\* C17: OpenMPStatic with chunk_size = c > 0 puts every task i of 0..N-1 in
\* the list of resource (i div c) mod R and in no other list, each list in
\* ascending order; the first query for a resource returns its whole list
\* and every later query for it returns empty.
C17_RoundRobinLists ==
    [][(cls = "OpenMPStatic" /\ chunk_size > 0) =>
          /\ pc' = "setup" =>
                \A r \in 0..(num_resources - 1) :
                    scheduler'.schedule[r] = RoundRobinList(r)
          /\ QueryStep =>
                new_tasks' = [raised |-> FALSE, none |-> FALSE,
                              ids |-> IF Unserved(RoundRobinList(res_id'))
                                      THEN RoundRobinList(res_id')
                                      ELSE <<>>]]_vars

\* ten tasks dealt one by one to three resources, each resource asked twice
C17_Witness ==
    /\ Done /\ cls = "OpenMPStatic" /\ chunk_size = 1
    /\ num_resources = 3 /\ queries = 6
    /\ result[1] = <<0, 1, 2, 0, 1, 2, 0, 1, 2, 0>>

\* the number of tasks handed out before task i: those of larger load and
\* those of equal load and larger index
Rank(i) ==
    Cardinality({j \in 0..(NumTasks - 1) :
                    \/ tasks[j + 1] > tasks[i + 1]
                    \/ (tasks[j + 1] = tasks[i + 1] /\ j > i)})

\* C18: LPT hands out one task per query, whichever resource asks, in
\* non-increasing order of load and, among tasks of equal load, the task of
\* larger original index first; after N non-empty queries every query
\* returns empty.
C18_LPTOrder ==
    [][(cls = "LPT" /\ QueryStep) =>
          new_tasks' =
              [raised |-> FALSE, none |-> FALSE,
               ids |-> IF requests < NumTasks
                       THEN <<CHOOSE i \in 0..(NumTasks - 1) :
                                  Rank(i) = requests>>
                       ELSE <<>>]]_vars

\* two tasks of equal load: the one of larger index went out first, to the
\* resource of smaller identifier
C18_Witness ==
    /\ Done /\ cls = "LPT" /\ NumTasks = 3 /\ num_resources = 3
    /\ tasks[1] = tasks[2] /\ tasks[3] > tasks[2]
    /\ result[1] = <<2, 1, 0>>

\* C19: simulate terminates for every policy that returns in-range indices:
\* a non-empty answer maps at least one unmapped task or ends the run with
\* the sentinel, so the loop makes at most N + R policy queries, and a run
\* that ends normally made exactly requests + R queries with requests <= N.
C19_Terminates ==
    /\ <>Ended
    /\ [](queries <= NumTasks + num_resources)
    /\ [](Succeeded => (queries = requests + num_resources
                          /\ requests <= NumTasks))
    /\ [][(QueryStep /\ ~new_tasks'.none /\ new_tasks'.ids # <<>>) =>
             \/ (pc' = "done" /\ result' = Sentinel)
             \/ \E i \in DOMAIN mapping :
                   mapping[i] = -1 /\ mapping'[i] # -1]_vars

\* a run that used all N + R queries: N answers of one task each, then an
\* empty answer for each of two resources
C19_Witness ==
    /\ Succeeded /\ cls = "TestPolicy"
    /\ NumTasks = 2 /\ num_resources = 2
    /\ requests = 2 /\ queries = 4

\* C20: under simulate with LPT and non-negative loads, a task goes to a
\* resource whose accumulated load at that moment is the least of all R
\* resources, the smallest identifier among the least loaded, and LPT
\* answers empty only when every task has been handed out.
C20_LPTGreedy ==
    [][(cls = "LPT" /\ QueryStep) =>
          IF new_tasks'.ids # <<>>
          THEN \A r \in 0..(num_resources - 1) :
                  \/ Busy(res_id') < Busy(r)
                  \/ (Busy(res_id') = Busy(r) /\ res_id' <= r)
          ELSE \A i \in DOMAIN mapping : mapping[i] # -1]_vars

\* the third task went to resource 1, which had worked less than resource 0
C20_Witness ==
    /\ pc = "loop" /\ cls = "LPT" /\ requests = 3 /\ res_id = 1
    /\ Len(new_tasks.ids) = 1
    /\ Busy(1) - tasks[new_tasks.ids[1] + 1] > 0
    /\ Busy(0) > Busy(1) - tasks[new_tasks.ids[1] + 1]

====
